---- MODULE Spec2Model ----
(***************************************************************************)
(* Model of the ARQ protocol simulator of src/app/page.tsx                 *)
(* (NetworkProtocolSimulator): the React state of the component, its       *)
(* click handlers and the setTimeout callbacks they schedule.              *)
(*                                                                         *)
(* Time is counted in units of 500 ms, the greatest common divisor of the  *)
(* delays the component passes to setTimeout (0, 500, 1000 ms).  A pending *)
(* callback is a record of `timers`, kept in scheduling order, holding the *)
(* values its closure captured when it was created (React closures see the *)
(* state of the render in which the handler ran, not the live state).      *)
(* Frame and acknowledgment ids are Date.now() values in the source; they  *)
(* are modelled by the position of the record in its registry, and a reset *)
(* makes every id held by a pending callback stale (0), since no record    *)
(* created after the reset can carry an earlier timestamp.                 *)
(***************************************************************************)
EXTENDS Integers, Sequences, FiniteSets, TLC

VARIABLES protocol, packets, acks, isSimulating, windowSize,
          nextSequenceNumber, expectedSequenceNumber, senderWindow,
          receiverBuffer, waitingForAck, timers

vars == <<protocol, packets, acks, isSimulating, windowSize,
          nextSequenceNumber, expectedSequenceNumber, senderWindow,
          receiverBuffer, waitingForAck, timers>>

\* ---------------------------------------------------------------- bounds
\* Spec, the whole component
MaxPackets == 2
MaxAcks == 1
MaxTimers == 2
MaxWindowChoice == 2
\* SpecSW, SpecGBN and SpecSR, one protocol between two resets
MaxPacketsRun == 4
MaxAcksRun == 3
MaxTimersRun == 3

\* ------------------------------------------------------------- constants
InitialWindowSize == 4
SendDelay == 2
RetransmitDelay == 2
AckDelay == 1
LossDelay == 1
StaggerDelay == 1
NoId == 0

Protocols == {"simple", "stop-and-wait", "go-back-n", "selective-repeat"}
WindowSizeChoices == 1..MaxWindowChoice

\* ------------------------------------------------------- pure helpers
Range(s) == {s[i] : i \in 1..Len(s)}

\* Math.min(...senderWindow); the source's Infinity for the empty window
\* is never compared with anything, the filter running over no element.
MathMin(w) == CHOOSE m \in Range(w) : \A x \in Range(w) : m <= x

FrameData(n) == <<"Frame", n>>

SeqsOf(pkts) == {pkts[i].sequenceNumber : i \in 1..Len(pkts)}

\* The status update by id skipping a frame that was marked lost.
SetStatusById_UnlessLost(pkts, id, st) ==
  [i_ \in 1..Len(pkts) |-> LET p == pkts[i_] IN
     IF p.id = id /\ p.status # "lost" THEN [p EXCEPT !.status = st] ELSE p]

SetStatusById(pkts, id, st) ==
  [i_ \in 1..Len(pkts) |-> LET p == pkts[i_] IN IF p.id = id THEN [p EXCEPT !.status = st] ELSE p]
SetStatusBySeq(pkts, sn, st) ==
  [i_ \in 1..Len(pkts) |-> LET p == pkts[i_] IN IF p.sequenceNumber = sn THEN [p EXCEPT !.status = st] ELSE p]
SetAckReceived(as, id) ==
  [i_ \in 1..Len(as) |-> LET a == as[i_] IN IF a.id = id THEN [a EXCEPT !.status = "received"] ELSE a]
Timer(kind, delay, id, sn, proto, type, win, snap, ackedAtCall) ==
  [kind |-> kind, rem |-> delay, delay |-> delay, id |-> id, seq |-> sn,
   proto |-> proto, type |-> type, win |-> win, snap |-> snap, ackedAtCall |-> ackedAtCall]

RemoveAt(s, i) == SubSeq(s, 1, i - 1) \o SubSeq(s, i + 1, Len(s))


\* senderWindow.filter(seq => seq >= fromSequence), the list the staggered
\* callbacks of retransmitFromSequence are created from.
retransmitList(fromSequence, win) == SelectSeq(win, LAMBDA q : q >= fromSequence)

goBackList(win) == IF win = <<>> THEN <<>> ELSE retransmitList(MathMin(win), win)

\* What losePacket schedules for each protocol: one retransmission of the
\* lost sequence number, a resend of the window from its base, or nothing.
losePolicy(proto) ==
  CASE proto = "stop-and-wait" -> "single"
    [] proto = "go-back-n" -> "window"
    [] proto = "selective-repeat" -> "single"
    [] OTHER -> "none"

\* sendNack's callback retransmitting only the rejected sequence number
\* under every protocol.
nackPolicy_SingleOnly(proto) == IF proto = "simple" THEN "none" ELSE "single"

\* sendNack's callback resending the window under both windowed protocols.
nackPolicy_WindowForBoth(proto) ==
  CASE proto = "stop-and-wait" -> "single"
    [] proto \in {"go-back-n", "selective-repeat"} -> "window"
    [] OTHER -> "none"

\* What sendNack's callback does for each protocol.
nackPolicy(proto) ==
  CASE proto = "stop-and-wait" -> "single"
    [] proto = "go-back-n" -> "window"
    [] proto = "selective-repeat" -> "single"
    [] OTHER -> "none"

\* Number of frames a pending callback will still append to the registry.
Pending(t) ==
  CASE t.kind = "retransmit" -> IF t.seq \in t.snap THEN 1 ELSE 0
    [] t.kind = "goBack" -> Len(goBackList(t.win))
    [] t.kind = "nack" ->
         IF nackPolicy(t.proto) = "single"
           THEN (IF t.seq \in t.snap THEN 1 ELSE 0)
           ELSE IF nackPolicy(t.proto) = "window" THEN Len(goBackList(t.win)) ELSE 0
    [] OTHER -> 0

RECURSIVE Reserved(_)
Reserved(tms) == IF tms = <<>> THEN 0 ELSE Pending(Head(tms)) + Reserved(Tail(tms))

\* The bounds of a specification: a command is taken only while the frame
\* registry has room for `need` more frames besides those the pending
\* callbacks will append, and the timer queue and the acknowledgment
\* registry are below their caps.  Callbacks are never held back.
Room(need, maxPackets, maxTimers) ==
  /\ Len(packets) + Reserved(timers) + need <= maxPackets
  /\ Len(timers) < maxTimers

AckRoom(maxAcks) == protocol # "stop-and-wait" => Len(acks) < maxAcks

\* Frames a loss or a negative acknowledgment issued now will make the
\* callbacks append.
Need(policy) == IF policy = "window" THEN Len(goBackList(senderWindow))
                ELSE IF policy = "single" THEN 1 ELSE 0

\* ------------------------------------------------------------------ Init
Init ==
  /\ protocol = "stop-and-wait"
  /\ packets = <<>>
  /\ acks = <<>>
  /\ isSimulating = FALSE
  /\ windowSize = InitialWindowSize
  /\ nextSequenceNumber = 0
  /\ expectedSequenceNumber = 0
  /\ senderWindow = <<>>
  /\ receiverBuffer = <<>>
  /\ waitingForAck = FALSE
  /\ timers = <<>>

\* ------------------------------------------------------------- handlers
\* Callbacks created before a reset hold ids (timestamps) older than any
\* record created afterwards.
Stale(tms) == [i_ \in 1..Len(tms) |-> LET t == tms[i_] IN [t EXCEPT !.id = NoId]]
\* resetSimulation without its setIsSimulating(false).
resetSimulation_KeepsBusy ==
  /\ packets' = <<>>
  /\ acks' = <<>>
  /\ nextSequenceNumber' = 0
  /\ expectedSequenceNumber' = 0
  /\ senderWindow' = <<>>
  /\ receiverBuffer' = <<>>
  /\ waitingForAck' = FALSE
  /\ UNCHANGED isSimulating
  /\ timers' = Stale(timers)

resetSimulation ==
  /\ packets' = <<>>
  /\ acks' = <<>>
  /\ nextSequenceNumber' = 0
  /\ expectedSequenceNumber' = 0
  /\ senderWindow' = <<>>
  /\ receiverBuffer' = <<>>
  /\ waitingForAck' = FALSE
  /\ isSimulating' = FALSE
  /\ timers' = Stale(timers)

Reset ==
  /\ resetSimulation
  /\ UNCHANGED <<protocol, windowSize>>

onProtocolChange(value) ==
  /\ value # protocol
  /\ protocol' = value
  /\ resetSimulation
  /\ UNCHANGED windowSize

onWindowSizeChange(value) ==
  /\ protocol \in {"go-back-n", "selective-repeat"}
  /\ value # windowSize
  /\ windowSize' = value
  /\ resetSimulation
  /\ UNCHANGED protocol

\* canSendPacket falling through to `default: return true` for the windowed
\* protocols.
canSendPacket_NoWindow ==
  IF isSimulating THEN FALSE
  ELSE IF protocol = "stop-and-wait" THEN ~waitingForAck ELSE TRUE

\* canSendPacket with the window base fixed at sequence number 0 instead of
\* Math.min(...senderWindow).
canSendPacket_BaseZero ==
  IF isSimulating THEN FALSE
  ELSE CASE protocol = "simple" -> TRUE
         [] protocol = "stop-and-wait" -> ~waitingForAck
         [] OTHER ->
              IF Len(senderWindow) >= windowSize THEN FALSE
              ELSE IF Len(senderWindow) = 0 THEN TRUE
              ELSE nextSequenceNumber >= 0 /\ nextSequenceNumber <= windowSize - 1

canSendPacket ==
  IF isSimulating THEN FALSE
  ELSE CASE protocol = "simple" -> TRUE
         [] protocol = "stop-and-wait" -> ~waitingForAck
         [] OTHER ->
              IF Len(senderWindow) >= windowSize THEN FALSE
              ELSE IF Len(senderWindow) = 0 THEN TRUE
              ELSE LET base == MathMin(senderWindow)
                       windowEnd == base + windowSize - 1
                   IN nextSequenceNumber >= base /\ nextSequenceNumber <= windowEnd

\* The updater `prev => prev + 1` of the two sequence counters.
increment_Twice(prev) == prev + 2

increment(prev) == prev + 1

\* `if (!canSendPacket()) return`: a call while the gate is closed changes
\* nothing.
sendPacket ==
  IF ~canSendPacket THEN UNCHANGED vars
  ELSE
  /\ LET newPacket == [id |-> Len(packets) + 1,
                       sequenceNumber |-> nextSequenceNumber,
                       data |-> FrameData(nextSequenceNumber),
                       status |-> "sending",
                       isRetransmission |-> FALSE]
     IN /\ isSimulating' = TRUE
        /\ packets' = Append(packets, newPacket)
        /\ senderWindow' = IF protocol \in {"go-back-n", "selective-repeat"}
                             THEN Append(senderWindow, nextSequenceNumber)
                             ELSE senderWindow
        /\ waitingForAck' = IF protocol = "stop-and-wait" THEN TRUE ELSE waitingForAck
        /\ timers' = Append(timers, Timer("arrive", SendDelay, newPacket.id,
                              0, protocol, "ACK", <<>>, {}, 0))
        /\ nextSequenceNumber' = increment(nextSequenceNumber)
  /\ UNCHANGED <<protocol, acks, windowSize, expectedSequenceNumber, receiverBuffer>>

\* retransmitPacket rewriting the frames of the sequence number in place
\* instead of appending a new frame.
retransmitPacket_InPlace(st, sequenceNumber, snap, proto) ==
  IF sequenceNumber \notin snap THEN st
  ELSE [packets |-> [i \in 1..Len(st.packets) |->
                       IF st.packets[i].sequenceNumber = sequenceNumber
                         THEN [st.packets[i] EXCEPT !.status = "retransmitting",
                                                    !.isRetransmission = TRUE]
                         ELSE st.packets[i]],
        timers |-> Append(st.timers,
                     Timer("retxArrive", RetransmitDelay, NoId,
                           0, proto, "ACK", <<>>, {}, 0))]

\* retransmitPacket run inside a callback: `st` is the registry and the
\* timer queue so far, `snap` the sequence numbers of the frames the
\* closure's `packets` held, `proto` the closure's protocol.
retransmitPacket(st, sequenceNumber, snap, proto) ==
  IF sequenceNumber \notin snap THEN st
  ELSE LET retransmittedPacket == [id |-> Len(st.packets) + 1,
                                   sequenceNumber |-> sequenceNumber,
                                   data |-> FrameData(sequenceNumber),
                                   status |-> "retransmitting",
                                   isRetransmission |-> TRUE]
       IN [packets |-> Append(st.packets, retransmittedPacket),
           timers |-> Append(st.timers,
                        Timer("retxArrive", RetransmitDelay, retransmittedPacket.id,
                              0, proto, "ACK", <<>>, {}, 0))]

\* retransmitFromSequence(Math.min(...senderWindow)) run inside a callback:
\* one staggered callback per sequence number, index * 500 ms apart.
retransmitFromSequence(tms, win, snap, proto) ==
  LET packetsToRetransmit == goBackList(win)
  IN tms \o [index \in 1..Len(packetsToRetransmit) |->
               Timer("retransmit", (index - 1) * StaggerDelay, NoId,
                     packetsToRetransmit[index], proto, "ACK", <<>>, snap, 0)]

losePacket(packetId) ==
  /\ \E i \in 1..Len(packets) : packets[i].id = packetId /\ packets[i].status = "received"
  /\ LET packet == packets[CHOOSE i \in 1..Len(packets) : packets[i].id = packetId]
     IN /\ packets' = SetStatusById(packets, packetId, "lost")
        /\ timers' =
             CASE losePolicy(protocol) = "window" ->
                    Append(timers, Timer("goBack", LossDelay, NoId, 0,
                                         protocol, "ACK", senderWindow, SeqsOf(packets), 0))
               [] losePolicy(protocol) = "single" ->
                    Append(timers, Timer("retransmit", LossDelay, NoId, packet.sequenceNumber,
                                         protocol, "ACK", <<>>, SeqsOf(packets), 0))
               [] OTHER -> timers
  /\ UNCHANGED <<protocol, acks, isSimulating, windowSize, nextSequenceNumber,
                 expectedSequenceNumber, senderWindow, receiverBuffer, waitingForAck>>


AckedCount(pkts, sn) ==
  Cardinality({i \in 1..Len(pkts) :
                 pkts[i].sequenceNumber = sn /\ pkts[i].status = "acknowledged"})

\* The Success Rate statistic: packets.length > 0 ? Math.round(acknowledged /
\* (frames with !isRetransmission) * 100) : 0.  A JavaScript division by 0
\* yields NaN for 0 / 0 and Infinity for n / 0, which Math.round returns
\* unchanged; Math.round rounds halves up.
successRate(pkts) ==
  LET acknowledged == Cardinality({i \in 1..Len(pkts) : pkts[i].status = "acknowledged"})
      originals == Cardinality({i \in 1..Len(pkts) : ~pkts[i].isRetransmission})
  IN IF Len(pkts) = 0 THEN [kind |-> "number", value |-> 0]
     ELSE IF originals = 0
       THEN [kind |-> IF acknowledged = 0 THEN "NaN" ELSE "Infinity", value |-> 0]
       ELSE [kind |-> "number",
             value |-> (2 * acknowledged * 100 + originals) \div (2 * originals)]

\* The reorder buffer after the single filter pass of sendAck, and the value
\* its running counter nextExpected ends with.
RECURSIVE drainBuffer(_, _)
drainBuffer(buf, nextExpected) ==
  IF buf = <<>> THEN [buffer |-> <<>>, nextExpected |-> nextExpected]
  ELSE IF Head(buf).sequenceNumber = nextExpected
         THEN drainBuffer(Tail(buf), nextExpected + 1)
         ELSE LET rest == drainBuffer(Tail(buf), nextExpected)
              IN [buffer |-> <<Head(buf)>> \o rest.buffer,
                  nextExpected |-> rest.nextExpected]

\* sendAck never turning an acknowledgment into a NACK.
ackTypeOf_AlwaysAck(sequenceNumber) == "ACK"

\* The comparison of sendAck's Stop-and-Wait branch inverted.
ackTypeOf_Inverted(sequenceNumber) ==
  IF protocol = "stop-and-wait" /\ sequenceNumber = expectedSequenceNumber
    THEN "NACK" ELSE "ACK"

\* The Go-Back-N branch of sendAck as a cumulative acknowledgment: every
\* sequence number up to the acknowledged one leaves the window.
slideWindow_Cumulative(win, sequenceNumber, expected) ==
  IF sequenceNumber >= expected
    THEN SelectSeq(win, LAMBDA q : q > sequenceNumber)
    ELSE win

\* The sender window after the Go-Back-N branch of sendAck (lines 178-188),
\* `expected` being the closure's expectedSequenceNumber, not yet advanced.
slideWindow(win, sequenceNumber, expected) ==
  IF sequenceNumber >= expected
    THEN IF sequenceNumber = expected
           THEN SelectSeq(win, LAMBDA q : q > expected - 1)
           ELSE SelectSeq(win, LAMBDA q : q # sequenceNumber)
    ELSE win

\* Acknowledgment records kept under every protocol.
recordsAck_Always(proto) == TRUE

\* `if (protocol !== 'stop-and-wait')` around every setAcks of sendAck and
\* sendNack: Stop-and-Wait keeps no acknowledgment record.
recordsAck(proto) == proto # "stop-and-wait"

\* packets.find(p => p.sequenceNumber === sequenceNumber) without the test
\* of the status.
receivedFrames_AnyStatus(sequenceNumber) ==
  {i \in 1..Len(packets) : packets[i].sequenceNumber = sequenceNumber}

\* The frames sendAck's packets.find(...) can return: those with the
\* sequence number and status 'received' (find returns the first).
receivedFrames(sequenceNumber) ==
  {i \in 1..Len(packets) :
     packets[i].sequenceNumber = sequenceNumber /\ packets[i].status = "received"}

\* Stop-and-Wait answers an unexpected sequence number with a NACK.
ackTypeOf(sequenceNumber) ==
  IF protocol = "stop-and-wait" /\ sequenceNumber # expectedSequenceNumber
    THEN "NACK" ELSE "ACK"

\* `if (!packet) return`: a call for a sequence number with no received
\* frame changes nothing.
sendAck(sequenceNumber) ==
  IF receivedFrames(sequenceNumber) = {} THEN UNCHANGED vars
  ELSE
  /\ LET packet == packets[CHOOSE i \in receivedFrames(sequenceNumber) :
                             \A j \in receivedFrames(sequenceNumber) : i <= j]
         newAck == [id |-> Len(acks) + 1, sequenceNumber |-> sequenceNumber,
                    status |-> "sending", type |-> ackTypeOf(sequenceNumber)]
         drained == drainBuffer(receiverBuffer, expectedSequenceNumber + 1)
     IN /\ expectedSequenceNumber' =
             CASE protocol = "stop-and-wait" /\ sequenceNumber = expectedSequenceNumber ->
                    increment(expectedSequenceNumber)
               [] protocol = "go-back-n" /\ sequenceNumber = expectedSequenceNumber ->
                    increment(expectedSequenceNumber)
               [] protocol = "selective-repeat" /\ sequenceNumber = expectedSequenceNumber ->
                    drained.nextExpected
               [] OTHER -> expectedSequenceNumber
        /\ senderWindow' =
             IF protocol = "go-back-n"
               THEN slideWindow(senderWindow, sequenceNumber, expectedSequenceNumber)
               ELSE senderWindow
        /\ receiverBuffer' =
             IF protocol = "selective-repeat"
               THEN IF sequenceNumber # expectedSequenceNumber
                      THEN Append(receiverBuffer, packet)
                      ELSE drained.buffer
               ELSE receiverBuffer
        /\ packets' =
             IF protocol = "selective-repeat" /\ sequenceNumber # expectedSequenceNumber
               THEN SetStatusBySeq(packets, sequenceNumber, "buffered")
               ELSE packets
        /\ acks' = IF recordsAck(protocol) THEN Append(acks, newAck) ELSE acks
        /\ timers' = Append(timers,
                       Timer("ack", AckDelay,
                             IF recordsAck(protocol) THEN newAck.id ELSE NoId,
                             sequenceNumber, protocol, newAck.type, <<>>, {},
                             AckedCount(packets, sequenceNumber)))
  /\ UNCHANGED <<protocol, isSimulating, windowSize, nextSequenceNumber, waitingForAck>>

sendNack(sequenceNumber) ==
  /\ \E i \in 1..Len(packets) :
        packets[i].sequenceNumber = sequenceNumber /\ packets[i].status = "received"
  /\ LET newAck == [id |-> Len(acks) + 1, sequenceNumber |-> sequenceNumber,
                    status |-> "sending", type |-> "NACK"]
     IN /\ acks' = IF recordsAck(protocol) THEN Append(acks, newAck) ELSE acks
        /\ timers' = Append(timers,
                       Timer("nack", AckDelay,
                             IF recordsAck(protocol) THEN newAck.id ELSE NoId,
                             sequenceNumber, protocol, "NACK",
                             senderWindow, SeqsOf(packets), 0))
  /\ UNCHANGED <<protocol, packets, isSimulating, windowSize, nextSequenceNumber,
                 expectedSequenceNumber, senderWindow, receiverBuffer, waitingForAck>>

\* ------------------------------------------------------ timer callbacks
\* A callback runs when its delay has elapsed; of two callbacks due at the
\* same time the one scheduled first runs first unless it was scheduled
\* with the longer delay (its deadline may then be the later one).
Due(i) ==
  /\ i \in 1..Len(timers)
  /\ timers[i].rem = 0
  /\ \A j \in 1..(i - 1) : timers[j].rem = 0 => timers[j].delay > timers[i].delay

\* 500 ms pass: possible once every callback that is due has run.
Tick ==
  /\ timers # <<>>
  /\ \A i \in 1..Len(timers) : timers[i].rem > 0
  /\ timers' = [i_ \in 1..Len(timers) |-> LET t == timers[i_] IN [t EXCEPT !.rem = t.rem - 1]]
  /\ UNCHANGED <<protocol, packets, acks, isSimulating, windowSize, nextSequenceNumber,
                 expectedSequenceNumber, senderWindow, receiverBuffer, waitingForAck>>

\* sendPacket's callback (lines 101-106).
arriveCallback(i) ==
  /\ Due(i) /\ timers[i].kind = "arrive"
  /\ packets' = SetStatusById(packets, timers[i].id, "received")
  /\ isSimulating' = FALSE
  /\ timers' = RemoveAt(timers, i)
  /\ UNCHANGED <<protocol, acks, windowSize, nextSequenceNumber, expectedSequenceNumber,
                 senderWindow, receiverBuffer, waitingForAck>>

\* retransmitPacket's callback (lines 122-129).
retransmitArriveCallback(i) ==
  /\ Due(i) /\ timers[i].kind = "retxArrive"
  /\ packets' = SetStatusById(packets, timers[i].id, "received")
  /\ waitingForAck' = IF timers[i].proto = "stop-and-wait" THEN FALSE ELSE waitingForAck
  /\ timers' = RemoveAt(timers, i)
  /\ UNCHANGED <<protocol, acks, isSimulating, windowSize, nextSequenceNumber,
                 expectedSequenceNumber, senderWindow, receiverBuffer>>

\* () => retransmitPacket(seq): lines 136, 149 and 154.
retransmitCallback(i) ==
  /\ Due(i) /\ timers[i].kind = "retransmit"
  /\ LET st == retransmitPacket([packets |-> packets, timers |-> RemoveAt(timers, i)],
                                timers[i].seq, timers[i].snap, timers[i].proto)
     IN /\ packets' = st.packets
        /\ timers' = st.timers
  /\ UNCHANGED <<protocol, acks, isSimulating, windowSize, nextSequenceNumber,
                 expectedSequenceNumber, senderWindow, receiverBuffer, waitingForAck>>

\* () => retransmitFromSequence(Math.min(...senderWindow)): lines 152 and 270.
goBackCallback(i) ==
  /\ Due(i) /\ timers[i].kind = "goBack"
  /\ timers' = retransmitFromSequence(RemoveAt(timers, i), timers[i].win,
                                      timers[i].snap, timers[i].proto)
  /\ UNCHANGED <<protocol, packets, acks, isSimulating, windowSize, nextSequenceNumber,
                 expectedSequenceNumber, senderWindow, receiverBuffer, waitingForAck>>

\* sendAck's callback (lines 223-243).
ackCallback(i) ==
  /\ Due(i) /\ timers[i].kind = "ack"
  /\ LET t == timers[i]
     IN /\ acks' = IF recordsAck(t.proto) THEN SetAckReceived(acks, t.id) ELSE acks
        /\ packets' = IF t.type = "ACK"
                        THEN SetStatusBySeq(packets, t.seq, "acknowledged")
                        ELSE packets
        /\ senderWindow' =
             IF t.type = "ACK" /\ t.proto \in {"go-back-n", "selective-repeat"}
               THEN SelectSeq(senderWindow, LAMBDA q : q # t.seq)
               ELSE senderWindow
        /\ waitingForAck' =
             IF t.type = "ACK" /\ t.proto = "stop-and-wait" THEN FALSE ELSE waitingForAck
        /\ timers' = RemoveAt(timers, i)
  /\ UNCHANGED <<protocol, isSimulating, windowSize, nextSequenceNumber,
                 expectedSequenceNumber, receiverBuffer>>

\* sendNack's callback (lines 258-274).
nackCallback(i) ==
  /\ Due(i) /\ timers[i].kind = "nack"
  /\ LET t == timers[i]
         lost == SetStatusBySeq(packets, t.seq, "lost")
         rest == RemoveAt(timers, i)
         st == IF nackPolicy(t.proto) = "single"
                 THEN retransmitPacket([packets |-> lost, timers |-> rest],
                                       t.seq, t.snap, t.proto)
                 ELSE IF nackPolicy(t.proto) = "window"
                   THEN [packets |-> lost,
                         timers |-> Append(rest, Timer("goBack", LossDelay, NoId, 0,
                                                       t.proto, "ACK", t.win, t.snap, 0))]
                   ELSE [packets |-> lost, timers |-> rest]
     IN /\ acks' = IF recordsAck(t.proto) THEN SetAckReceived(acks, t.id) ELSE acks
        /\ packets' = st.packets
        /\ timers' = st.timers
  /\ UNCHANGED <<protocol, isSimulating, windowSize, nextSequenceNumber,
                 expectedSequenceNumber, senderWindow, receiverBuffer, waitingForAck>>

\* ------------------------------------------------------- specifications
ReceivedSeqs == {packets[i].sequenceNumber : i \in {j \in 1..Len(packets) : packets[j].status = "received"}}
ReceivedIds == {packets[i].id : i \in {j \in 1..Len(packets) : packets[j].status = "received"}}

Commands(maxPackets, maxAcks, maxTimers) ==
  \/ Room(1, maxPackets, maxTimers) /\ sendPacket
  \/ Room(Need(losePolicy(protocol)), maxPackets, maxTimers)
       /\ \E id \in ReceivedIds : losePacket(id)
  \/ Room(0, maxPackets, maxTimers) /\ AckRoom(maxAcks)
       /\ \E sn \in SeqsOf(packets) : sendAck(sn)
  \/ Room(Need(nackPolicy(protocol)), maxPackets, maxTimers) /\ AckRoom(maxAcks)
       /\ \E sn \in ReceivedSeqs : sendNack(sn)

Reconfigure ==
  \/ Reset
  \/ \E value \in Protocols : onProtocolChange(value)
  \/ \E value \in WindowSizeChoices \cup {InitialWindowSize} : onWindowSizeChange(value)

PacketCallbacks ==
  \/ \E i \in 1..Len(timers) : arriveCallback(i)
  \/ \E i \in 1..Len(timers) : retransmitArriveCallback(i)
  \/ \E i \in 1..Len(timers) : retransmitCallback(i)
  \/ \E i \in 1..Len(timers) : ackCallback(i)
  \/ \E i \in 1..Len(timers) : nackCallback(i)

GoBackCallbacks == \E i \in 1..Len(timers) : goBackCallback(i)

\* The whole component: every command, reconfiguration and callback.
Next ==
  \/ Commands(MaxPackets, MaxAcks, MaxTimers)
  \/ Reconfigure
  \/ PacketCallbacks
  \/ GoBackCallbacks
  \/ Tick

Spec == Init /\ [][Next]_vars

\* The component after Stop-and-Wait, Go-Back-N or Selective-Repeat has been
\* selected (with a window size, for the latter two) and every earlier
\* callback has run, up to the next reset or reconfiguration.
InitConfigured(p) ==
  /\ protocol = p
  /\ packets = <<>>
  /\ acks = <<>>
  /\ isSimulating = FALSE
  /\ windowSize \in (IF p = "stop-and-wait" THEN {InitialWindowSize}
                     ELSE WindowSizeChoices \cup {InitialWindowSize})
  /\ nextSequenceNumber = 0
  /\ expectedSequenceNumber = 0
  /\ senderWindow = <<>>
  /\ receiverBuffer = <<>>
  /\ waitingForAck = FALSE
  /\ timers = <<>>

NextSW == Commands(MaxPacketsRun, MaxAcksRun, MaxTimersRun) \/ PacketCallbacks \/ Tick
SpecSW == InitConfigured("stop-and-wait") /\ [][NextSW]_vars

NextGBN ==
  \/ Commands(MaxPacketsRun, MaxAcksRun, MaxTimersRun)
  \/ PacketCallbacks
  \/ GoBackCallbacks
  \/ Tick
SpecGBN == InitConfigured("go-back-n") /\ [][NextGBN]_vars

NextSR == Commands(MaxPacketsRun, MaxAcksRun, MaxTimersRun) \/ PacketCallbacks \/ Tick
SpecSR == InitConfigured("selective-repeat") /\ [][NextSR]_vars

\* The window size handler called with values the selector's items (1..8)
\* do not include: parseInt accepts them and the handler tests nothing.
InvalidWindowSizes == {0, -1}

NextUnchecked ==
  \/ Next
  \/ \E value \in InvalidWindowSizes : onWindowSizeChange(value)

SpecUnchecked == Init /\ [][NextUnchecked]_vars

\* setTimeout never drops a callback and time always passes: a callback that
\* is due runs, and once none is due the next 500 ms elapse.
FairGBN ==
  SpecGBN /\ WF_vars(PacketCallbacks) /\ WF_vars(GoBackCallbacks) /\ WF_vars(Tick)
FairSR == SpecSR /\ WF_vars(PacketCallbacks) /\ WF_vars(Tick)
FairSW == SpecSW /\ WF_vars(PacketCallbacks) /\ WF_vars(Tick)

\* A run of any of the four protocols between two resets, callbacks always
\* running.
InitRun == \E p \in Protocols : InitConfigured(p)

NextRun ==
  \/ Commands(MaxPacketsRun, MaxAcksRun, MaxTimersRun)
  \/ PacketCallbacks
  \/ GoBackCallbacks
  \/ Tick

SpecRun == InitRun /\ [][NextRun]_vars

FairRun ==
  SpecRun /\ WF_vars(PacketCallbacks) /\ WF_vars(GoBackCallbacks) /\ WF_vars(Tick)

\* ================================================================ claims
Windowed == protocol \in {"go-back-n", "selective-repeat"}

Active(p) == p.status \in {"sending", "retransmitting", "received"}

ActiveFrames == {i \in 1..Len(packets) : Active(packets[i])}

Retransmissions == {i \in 1..Len(packets) : packets[i].isRetransmission}

\* C1: under Go-Back-N and Selective-Repeat the sender window never holds
\* more than windowSize sequence numbers, in any state reachable by sends,
\* acknowledgments, negative acknowledgments, losses, resets,
\* reconfigurations and callbacks.
C1_WindowWithinSize == Windowed => Len(senderWindow) <= windowSize

\* The window is full after a loss was injected and its retransmission
\* created, and the send gate is closed by the window alone.
C1_Witness ==
  /\ Windowed
  /\ Len(senderWindow) = windowSize
  /\ ~isSimulating
  /\ ~canSendPacket
  /\ Retransmissions # {}

\* C2: under Stop-and-Wait at most one frame of the registry is Sending,
\* Retransmitting or Received at any time.
C2_OneFrameInTransit ==
  protocol = "stop-and-wait" => Cardinality(ActiveFrames) <= 1

\* C3: under Selective-Repeat, acknowledging the expected sequence number
\* leaves no frame in the reorder buffer whose sequence number is the new
\* expectedSequenceNumber (the drain is complete whatever the arrival order).
C3_DrainComplete ==
  [][(protocol = "selective-repeat"
        /\ expectedSequenceNumber \in ReceivedSeqs
        /\ sendAck(expectedSequenceNumber))
     => \A k \in 1..Len(receiverBuffer') :
          receiverBuffer'[k].sequenceNumber # expectedSequenceNumber']_vars

\* C4: the reorder buffer holds only sequence numbers above
\* expectedSequenceNumber under Selective-Repeat, and is empty under every
\* other protocol.
C4_BufferAboveExpected ==
  IF protocol = "selective-repeat"
    THEN \A k \in 1..Len(receiverBuffer) :
           receiverBuffer[k].sequenceNumber > expectedSequenceNumber
    ELSE receiverBuffer = <<>>

SeqNumbers == 0..(MaxPacketsRun - 1)

AscendingPairs == {pair \in SeqNumbers \X SeqNumbers : pair[1] < pair[2]}

\* A retransmission frame for sequence number sn at a registry position
\* above n: a frame appended after the registry had n frames.
NewRetransmission(sn, n, i) ==
  /\ i \in (n + 1)..Len(packets)
  /\ packets[i].sequenceNumber = sn
  /\ packets[i].isRetransmission

\* A Go-Back-N loss or negative acknowledgment is pending whose closure saw
\* both sn and tn in the sender window.
GoBackPending(sn, tn) ==
  \E k \in 1..Len(timers) :
     /\ timers[k].proto = "go-back-n"
     /\ timers[k].kind \in {"goBack", "nack"}
     /\ {sn, tn} \subseteq Range(timers[k].win)

RetransmissionsOf(sn) ==
  {i \in 1..Len(packets) : packets[i].isRetransmission /\ packets[i].sequenceNumber = sn}

\* Callbacks pending that retransmit the single sequence number sn.
SinglePending(sn) ==
  {k \in 1..Len(timers) : timers[k].kind \in {"retransmit", "nack"} /\ timers[k].seq = sn}

\* Retransmission frames of sn created so far or still to come.
Owed(sn) == Cardinality(RetransmissionsOf(sn)) + Cardinality(SinglePending(sn))

\* This step is an injected loss of a frame with sequence number sn or
\* negativeAcknowledge(sn).
LossOn(sn) ==
  \/ \E i \in 1..Len(packets) :
        packets[i].sequenceNumber = sn /\ losePacket(packets[i].id)
  \/ sendNack(sn)

\* C6: under Selective-Repeat an injected loss of a frame with sequence
\* number s, or negativeAcknowledge(s), creates exactly one retransmission
\* frame, for s, and none for any other sequence number: every step changes
\* the retransmissions of a sequence number created or still owed by one
\* exactly when it is such a command on that number, and the owed frame is
\* eventually appended and arrives.  Checked between two resets, callbacks
\* always running.
C6_SelectiveResendsOne ==
  /\ [][\A sn \in SeqNumbers :
          Owed(sn)' = Owed(sn) + (IF LossOn(sn) THEN 1 ELSE 0)]_vars
  /\ \A sn \in SeqNumbers : \A n \in 1..(MaxPacketsRun - 1) :
       (SinglePending(sn) # {} /\ Len(packets) = n)
         ~> (\E i \in 1..Len(packets) :
               NewRetransmission(sn, n, i) /\ packets[i].status = "received")

\* Window {0, 1, 2}, negativeAcknowledge(2): the only retransmission is the
\* one of 2, and it has arrived.
C6_Witness ==
  /\ protocol = "selective-repeat"
  /\ senderWindow = <<0, 1, 2>>
  /\ Len(acks) = 1 /\ acks[1].type = "NACK" /\ acks[1].sequenceNumber = 2
  /\ Len(packets) = 4
  /\ packets[4].sequenceNumber = 2 /\ packets[4].isRetransmission
  /\ packets[4].status = "received"
  /\ timers = <<>>

ResetState ==
  /\ nextSequenceNumber = 0
  /\ expectedSequenceNumber = 0
  /\ senderWindow = <<>>
  /\ receiverBuffer = <<>>
  /\ waitingForAck = FALSE
  /\ isSimulating = FALSE
  /\ packets = <<>>
  /\ acks = <<>>

Reconfigured == protocol' # protocol \/ windowSize' # windowSize

\* C7: reset() and every change of protocol or of windowSize yield a state
\* with both sequence counters 0, the sender window, the reorder buffer and
\* both registries empty, and awaitingAck and the busy flag false.
C7_ResetClears == [][(Reset \/ Reconfigured) => ResetState']_vars

\* The window size was changed under Selective-Repeat while a send was in
\* transit: its arrival callback is still pending, over a cleared state.
C7_Witness ==
  /\ ResetState
  /\ protocol = "selective-repeat"
  /\ windowSize = 2
  /\ \E k \in 1..Len(timers) : timers[k].kind = "arrive" /\ timers[k].id = NoId

\* This step appends a frame that is not a retransmission: a send that
\* took effect.
SendTookEffect ==
  /\ Len(packets') = Len(packets) + 1
  /\ ~packets'[Len(packets')].isRetransmission

\* C8 as claimed: nextSequenceNumber grows by exactly 1 on every send that
\* takes effect, is unchanged by every other command and callback, and
\* never decreases.
C8_NeverDecreases ==
  [][/\ SendTookEffect => nextSequenceNumber' = nextSequenceNumber + 1
     /\ (~SendTookEffect /\ ~(Reset \/ Reconfigured))
          => nextSequenceNumber' = nextSequenceNumber
     /\ nextSequenceNumber' >= nextSequenceNumber]_vars

\* C8 as amended: nextSequenceNumber grows by exactly 1 on every send that
\* takes effect, is unchanged by retransmissions, acknowledge,
\* negativeAcknowledge, injectLoss and every callback, and decreases only
\* when a reset or reconfiguration returns it to 0.
C8_GrowsByOneBetweenResets ==
  [][/\ SendTookEffect => nextSequenceNumber' = nextSequenceNumber + 1
     /\ (~SendTookEffect /\ ~(Reset \/ Reconfigured))
          => nextSequenceNumber' = nextSequenceNumber
     /\ (Reset \/ Reconfigured) => nextSequenceNumber' = 0]_vars

\* One frame was sent, lost and retransmitted, and the retransmission was
\* negatively acknowledged: the counter stands at 1.
C8_Witness ==
  /\ nextSequenceNumber = 1
  /\ Len(packets) = 2
  /\ packets[2].isRetransmission
  /\ Len(acks) = 1

\* C9: once sequence number s is Acknowledged, a further acknowledge(s)
\* neither advances expectedSequenceNumber nor, when its callback runs,
\* leaves more frames of s Acknowledged than there were at the call.
C9_AcknowledgeIdempotent ==
  [][/\ \A sn \in ReceivedSeqs :
          (sendAck(sn) /\ AckedCount(packets, sn) > 0)
            => expectedSequenceNumber' = expectedSequenceNumber
     /\ \A i \in 1..Len(timers) :
          (ackCallback(i) /\ timers[i].ackedAtCall > 0)
            => AckedCount(packets', timers[i].seq) <= timers[i].ackedAtCall]_vars

Frame0(status) ==
  [id |-> 1, sequenceNumber |-> 0, data |-> FrameData(0), status |-> status,
   isRetransmission |-> FALSE]

AnyCallback == PacketCallbacks \/ GoBackCallbacks

SW_Initial ==
  /\ protocol = "stop-and-wait" /\ packets = <<>> /\ timers = <<>>
  /\ nextSequenceNumber = 0 /\ expectedSequenceNumber = 0
  /\ ~waitingForAck /\ ~isSimulating

SW_Sending ==
  /\ packets = <<Frame0("sending")>>
  /\ Len(timers) = 1 /\ timers[1].kind = "arrive"
  /\ expectedSequenceNumber = 0 /\ waitingForAck

SW_Received ==
  /\ packets = <<Frame0("received")>>
  /\ timers = <<>>
  /\ expectedSequenceNumber = 0 /\ waitingForAck

SW_AckSent ==
  /\ packets = <<Frame0("received")>>
  /\ Len(timers) = 1 /\ timers[1].kind = "ack"
  /\ expectedSequenceNumber = 1

SW_Acknowledged ==
  /\ packets = <<Frame0("acknowledged")>>
  /\ expectedSequenceNumber = 1
  /\ ~waitingForAck
  /\ canSendPacket

\* C10: Stop-and-Wait from the initial state: sendFrame creates frame 0 as
\* Sending; its transit callback makes it Received; acknowledge(0) sets
\* expectedSequenceNumber to 1; the acknowledgment's callback makes frame 0
\* Acknowledged, with awaitingAck false and canSend() true.
C10_StopAndWaitScenario ==
  [][/\ (SW_Initial /\ sendPacket) => SW_Sending'
     /\ (SW_Sending /\ AnyCallback) => SW_Received'
     /\ (SW_Received /\ sendAck(0)) => SW_AckSent'
     /\ (SW_AckSent /\ AnyCallback) => SW_Acknowledged']_vars

C10_Witness == SW_Acknowledged /\ timers = <<>> /\ acks = <<>>

\* C11: a command whose precondition is not met is a complete no-op:
\* sendFrame while canSend() is false, and acknowledge(s) while no frame with
\* sequence number s is Received, change neither registry, counter, window,
\* reorder buffer, awaitingAck nor busy flag, and schedule no callback.
C11_UnmetPreconditionNoOp ==
  [][/\ (~canSendPacket /\ sendPacket) => UNCHANGED vars
     /\ \A sn \in SeqNumbers :
          (sn \notin ReceivedSeqs /\ sendAck(sn)) => UNCHANGED vars]_vars

\* A send is in transit: the gate is closed, and frame 0 is in the registry
\* without being Received.
C11_Witness ==
  /\ ~canSendPacket
  /\ 0 \in SeqsOf(packets)
  /\ 0 \notin ReceivedSeqs
  /\ timers # <<>>

WindowBases == {m \in Range(senderWindow) : \A x \in Range(senderWindow) : m <= x}

\* C13: under Go-Back-N and Selective-Repeat canSend() is true exactly when
\* the busy flag is clear, the window holds fewer than windowSize numbers and
\* it is empty or min(window) <= nextSequenceNumber <= min(window) +
\* windowSize - 1, min(window) being that of the current window; under
\* Stop-and-Wait exactly when awaitingAck is false and no send is in transit.
C13_CanSendCharacterised ==
  /\ Windowed =>
       (canSendPacket <=>
          /\ ~isSimulating
          /\ Len(senderWindow) < windowSize
          /\ \/ senderWindow = <<>>
             \/ \E base \in WindowBases :
                  /\ base <= nextSequenceNumber
                  /\ nextSequenceNumber <= base + windowSize - 1)
  /\ protocol = "stop-and-wait" =>
       (canSendPacket <=> (~waitingForAck /\ ~isSimulating))

\* Window size 2, frames 0 and 1 sent and 1 acknowledged out of order: the
\* window {0} has room, yet nextSequenceNumber = 2 lies beyond 0 + 2 - 1 and
\* the gate is closed by the range test alone.
C13_Witness ==
  /\ Windowed
  /\ ~isSimulating
  /\ senderWindow = <<0>>
  /\ windowSize = 2
  /\ nextSequenceNumber = 2
  /\ ~canSendPacket

Originals == {i \in 1..Len(packets) : ~packets[i].isRetransmission}

AcknowledgedFrames == {i \in 1..Len(packets) : packets[i].status = "acknowledged"}

\* C14: in every reachable state the success rate is a number: it is
\* round(100 * Acknowledged frames / frames with isRetransmission false),
\* and 0 whenever the registry holds no frame with isRetransmission false,
\* also when it holds only retransmission frames.
C14_SuccessRateDefined ==
  /\ successRate(packets).kind = "number"
  /\ successRate(packets).value =
       IF Originals = {} THEN 0
       ELSE (200 * Cardinality(AcknowledgedFrames) + Cardinality(Originals))
              \div (2 * Cardinality(Originals))

\* The frame appended by this step is a retransmission of sn.
AppendsRetransmissionOf(sn) ==
  /\ Len(packets') = Len(packets) + 1
  /\ packets'[Len(packets')].sequenceNumber = sn
  /\ packets'[Len(packets')].isRetransmission

\* C15: between resets the frame registry is append-only: no step removes
\* or reorders a frame or changes a frame's id, sequenceNumber, payload or
\* isRetransmission, only its status; a retransmission of s appends a new
\* frame with sequenceNumber s, isRetransmission true and the payload of the
\* earlier frames for s, which stay in the registry.
C15_RegistryAppendOnly ==
  [][~(Reset \/ Reconfigured) =>
       /\ Len(packets') >= Len(packets)
       /\ \A i \in 1..Len(packets) :
            packets'[i] = [packets[i] EXCEPT !.status = packets'[i].status]
       /\ \A i \in (Len(packets) + 1)..Len(packets') :
            \A j \in 1..Len(packets) :
               (packets'[i].isRetransmission
                  /\ packets[j].sequenceNumber = packets'[i].sequenceNumber)
                 => packets'[i].data = packets[j].data
       /\ \A k \in 1..Len(timers) :
            ((retransmitCallback(k) \/ (nackCallback(k) /\ nackPolicy(timers[k].proto) = "single"))
               /\ timers[k].seq \in timers[k].snap)
              => AppendsRetransmissionOf(timers[k].seq)]_vars

\* Frame 0 was lost and retransmitted: the lost original is still the first
\* entry of the registry and the retransmission, now Received, the second.
C15_Witness ==
  /\ Len(packets) = 2
  /\ packets[1].sequenceNumber = 0 /\ ~packets[1].isRetransmission
  /\ packets[1].status = "lost"
  /\ packets[2].sequenceNumber = 0 /\ packets[2].isRetransmission
  /\ packets[2].status = "received"

\* C16: while the protocol is Stop-and-Wait the acknowledgment registry is
\* empty: neither acknowledge nor negativeAcknowledge, nor any pending
\* callback (those scheduled under an earlier protocol included), appends an
\* ACK or NACK record.
C16_NoAckRecordsUnderStopAndWait == protocol = "stop-and-wait" => acks = <<>>

\* Stop-and-Wait: a frame was acknowledged and a negative acknowledgment is
\* in transit, with no record kept of either.
C16_Witness ==
  /\ protocol = "stop-and-wait"
  /\ \E i \in 1..Len(packets) : packets[i].status = "acknowledged"
  /\ \E k \in 1..Len(timers) : timers[k].kind = "nack" /\ timers[k].proto = "stop-and-wait"
  /\ acks = <<>>

\* C17: under Go-Back-N, acknowledge(s) with s = expectedSequenceNumber
\* advances expectedSequenceNumber by exactly 1 and, at the call (before the
\* acknowledgment's callback), leaves in the sender window no sequence number
\* less than or equal to the old expected value, s included.
C17_InOrderAckSlidesWindow ==
  [][\A sn \in ReceivedSeqs :
       (protocol = "go-back-n" /\ sn = expectedSequenceNumber /\ sendAck(sn))
         => /\ expectedSequenceNumber' = expectedSequenceNumber + 1
            /\ \A q \in Range(senderWindow') : q > expectedSequenceNumber]_vars

\* An acknowledgment of sn is in transit under Go-Back-N.
AckPending(sn) ==
  \E k \in 1..Len(timers) :
     /\ timers[k].kind = "ack" /\ timers[k].type = "ACK"
     /\ timers[k].proto = "go-back-n" /\ timers[k].seq = sn

LossPending(sn) ==
  \E k \in 1..Len(timers) :
     /\ timers[k].kind = "retransmit" /\ timers[k].proto = "stop-and-wait"
     /\ timers[k].seq = sn

\* This step is the arrival of a retransmission frame of sn.
RetransmissionArrives(sn) ==
  \E k \in 1..Len(timers) :
     /\ retransmitArriveCallback(k)
     /\ \E i \in 1..Len(packets) :
          /\ packets[i].id = timers[k].id
          /\ packets[i].sequenceNumber = sn
          /\ packets[i].isRetransmission

\* C19: under Stop-and-Wait, after a loss injected on the outstanding frame,
\* awaitingAck stays true until a retransmission frame of that sequence
\* number becomes Received: while the loss's retransmission is still to be
\* created, no step clears awaitingAck but such an arrival (not the callback
\* of an acknowledgment in transit either), and the retransmission
\* eventually arrives, leaving awaitingAck false.
C19_AwaitingAckUntilRetransmissionArrives ==
  /\ [][\A sn \in SeqNumbers :
          (protocol = "stop-and-wait" /\ LossPending(sn)
             /\ waitingForAck /\ ~waitingForAck')
            => RetransmissionArrives(sn)]_vars
  /\ \A sn \in SeqNumbers : \A n \in 1..(MaxPacketsRun - 1) :
       (LossPending(sn) /\ Len(packets) = n)
         ~> (\E i \in 1..Len(packets) :
               /\ NewRetransmission(sn, n, i)
               /\ packets[i].status = "received"
               /\ ~waitingForAck)

\* The arrival callback of the frame at registry position i is pending.
ArrivalPending(i) ==
  /\ i \in 1..Len(packets)
  /\ \E k \in 1..Len(timers) :
       timers[k].kind \in {"arrive", "retxArrive"} /\ timers[k].id = packets[i].id

FramePositions == 1..MaxPacketsRun

\* C20: scheduled transitions are never cancelled and the last writer wins
\* on status: every frame is created with its arrival callback pending; the
\* callback stays pending until it runs, and when it runs it sets the frame
\* to Received whatever its status then is (Lost included); so, absent a
\* reset, every created frame eventually is Received.
C20_ArrivalAlwaysFires ==
  /\ [][/\ \A i \in (Len(packets) + 1)..Len(packets') : ArrivalPending(i)'
        /\ \A i \in 1..Len(packets) :
             ArrivalPending(i) => (ArrivalPending(i)' \/ packets'[i].status = "received")
        /\ \A k \in 1..Len(timers) :
             (arriveCallback(k) \/ retransmitArriveCallback(k))
               => \A i \in 1..Len(packets) :
                    packets[i].id = timers[k].id => packets'[i].status = "received"]_vars
  /\ \A i \in FramePositions :
       ArrivalPending(i) ~> (i <= Len(packets) /\ packets[i].status = "received")

\* Two negative acknowledgments of the same frame in quick succession: the
\* callback of the second marked the retransmission created by the first
\* Lost while that frame's own arrival callback is still pending.
C20_Witness ==
  \E i \in 1..Len(packets) :
     /\ packets[i].isRetransmission
     /\ packets[i].status = "lost"
     /\ ArrivalPending(i)

\* The callback most recently scheduled, as left by this step.
LastTimer == timers'[Len(timers')]

\* C21: under Stop-and-Wait, acknowledge(s) on a Received frame is a
\* positive ACK only when s = expectedSequenceNumber, and then
\* expectedSequenceNumber grows by exactly 1; when s differs the outcome is
\* negative: expectedSequenceNumber is unchanged and neither the call nor
\* its callback makes a frame Acknowledged.
C21_StopAndWaitAckOutcome ==
  [][/\ \A sn \in ReceivedSeqs :
          (protocol = "stop-and-wait" /\ sendAck(sn))
            => /\ Len(timers') = Len(timers) + 1
               /\ LastTimer.kind = "ack" /\ LastTimer.seq = sn
               /\ packets' = packets
               /\ IF sn = expectedSequenceNumber
                    THEN /\ LastTimer.type = "ACK"
                         /\ expectedSequenceNumber' = expectedSequenceNumber + 1
                    ELSE /\ LastTimer.type = "NACK"
                         /\ expectedSequenceNumber' = expectedSequenceNumber
     /\ \A k \in 1..Len(timers) :
          (ackCallback(k) /\ timers[k].proto = "stop-and-wait")
            => IF timers[k].type = "NACK"
                 THEN packets' = packets /\ waitingForAck' = waitingForAck
                 ELSE \A i \in 1..Len(packets') :
                        packets'[i].sequenceNumber = timers[k].seq
                          => packets'[i].status = "acknowledged"]_vars

\* Stop-and-Wait, frame 0 already acknowledged once: the acknowledge of its
\* retransmission, 0 no longer being expected, is in transit as a NACK.
C21_Witness ==
  /\ protocol = "stop-and-wait"
  /\ expectedSequenceNumber = 1
  /\ \E k \in 1..Len(timers) :
       timers[k].kind = "ack" /\ timers[k].type = "NACK" /\ timers[k].seq = 0
  /\ \E i \in 1..Len(packets) :
       /\ packets[i].sequenceNumber = 0
       /\ packets[i].isRetransmission
       /\ packets[i].status = "received"

\* C22: in every reachable state the frames with status Acknowledged are at
\* most as many as the frames with isRetransmission false: no sequence
\* number is counted as acknowledged more than once and the success rate
\* never exceeds 100%, also when an original frame and its retransmissions
\* are in the registry together.
C22_AcknowledgedAtMostOriginals ==
  /\ Cardinality(AcknowledgedFrames) <= Cardinality(Originals)
  /\ \A i \in AcknowledgedFrames :
       AckedCount(packets, packets[i].sequenceNumber) <= 1

\* C23: Acknowledged is a terminal frame status between resets: no
\* acknowledge, negativeAcknowledge, injectLoss or callback changes the
\* status of a frame that is Acknowledged, so the number of Acknowledged
\* frames never decreases.
C23_AcknowledgedIsTerminal ==
  [][/\ Len(packets') >= Len(packets)
     /\ \A i \in 1..Len(packets) :
          packets[i].status = "acknowledged" => packets'[i].status = "acknowledged"]_vars

\* C24: callbacks scheduled before a reset or reconfiguration have no
\* visible effect after it: a callback that runs over the cleared state
\* leaves both registries empty and awaitingAck, the busy flag, the window
\* and both counters at their reset values; and an arrival callback left
\* over from before the reset (its frame is no longer in the registry)
\* changes neither the status of a frame sent since nor a flag.
C24_StaleCallbacksInvisible ==
  [][/\ (ResetState /\ AnyCallback) => ResetState'
     /\ \A k \in 1..Len(timers) :
          ((arriveCallback(k) \/ retransmitArriveCallback(k)) /\ timers[k].id = NoId)
            => UNCHANGED <<packets, isSimulating, waitingForAck>>]_vars

\* C25: in every reachable state expectedSequenceNumber <=
\* nextSequenceNumber, every frame of the registry has a sequence number
\* below nextSequenceNumber, and every sequence number of the sender window
\* is below nextSequenceNumber and occurs in the window once.
C25_SequenceNumbersBelowNext ==
  /\ expectedSequenceNumber <= nextSequenceNumber
  /\ \A i \in 1..Len(packets) : packets[i].sequenceNumber < nextSequenceNumber
  /\ \A k \in 1..Len(senderWindow) : senderWindow[k] < nextSequenceNumber
  /\ Cardinality(Range(senderWindow)) = Len(senderWindow)

\* C26: under Go-Back-N and Selective-Repeat the receiver never falls
\* permanently behind: in a state with no callback pending in which every
\* sequence number sent, 0..n-1, has an Acknowledged frame,
\* expectedSequenceNumber is n, whatever the order of the acknowledgments.
C26_ReceiverCatchesUp ==
  (/\ Windowed
   /\ timers = <<>>
   /\ \A sn \in 0..(nextSequenceNumber - 1) : AckedCount(packets, sn) >= 1)
    => expectedSequenceNumber = nextSequenceNumber

\* The frame at position i was lost (by an injected loss, or by the callback
\* of a negative acknowledgment) and has sequence number sn.
LostAt(i, sn) ==
  /\ i \in 1..Len(packets)
  /\ packets[i].status = "lost"
  /\ packets[i].sequenceNumber = sn

\* A retransmission frame of sn appended after position i has arrived.
RetransmittedAfter(i, sn) ==
  \E j \in (i + 1)..Len(packets) :
     /\ packets[j].sequenceNumber = sn
     /\ packets[j].isRetransmission
     /\ packets[j].status # "retransmitting"

\* C27: under Stop-and-Wait, Go-Back-N and Selective-Repeat, absent a
\* reset, every injected loss and every negative acknowledgment of a
\* sequence number eventually leads to a new retransmission frame of that
\* sequence number that arrives, also when the number is no longer in the
\* sender window or the window is empty.
C27_LossAlwaysRetransmitted ==
  \A i \in FramePositions : \A sn \in SeqNumbers :
     LostAt(i, sn) ~> RetransmittedAfter(i, sn)

====
